---- MODULE Spec2Model ----
(***************************************************************************)
(* PhysioSense AI (src/index.tsx): the ingestion pipeline of the App       *)
(* component.  Text is modelled as a sequence of one-character strings;    *)
(* the line feed is the token "LF" and the carriage return the token "CR". *)
(* A sample is the record of the five channels of FingerData; the          *)
(* timestamp field (the wall clock formatted at decode time) is left out,  *)
(* no property below reads it.  connectedDeviceName, patientName,          *)
(* visibleFingers and deviceRef are display state that no handler reads    *)
(* back and are left out as well.                                          *)
(*                                                                         *)
(* Spec        the App of line 79 from construction, without the reports   *)
(* SpecPush    handleCharacteristicValueChanged alone, on a rich chunk set *)
(* SpecSplit   the same handler fed one two-frame stream cut anywhere      *)
(* SpecHistory long single-source sessions, up to the history capacity     *)
(* SpecTick    the simulation effect alone, from any current sample        *)
(* SpecReport  short single-source sessions with the report panel          *)
(***************************************************************************)
EXTENDS Integers, Sequences, FiniteSets, TLC

VARIABLES
    isConnected,            \* useState, line 80
    isSimulating,           \* useState, line 81
    sessionActive,          \* useState, line 82
    currentData,            \* useState, line 83
    history,                \* useState, line 84
    deviceError,            \* useState, line 87
    btStatus,               \* useState, line 88
    buffer,                 \* bufferRef.current, line 101
    serverRefSet,           \* serverRef.current # null, line 100
    linkUp,                 \* server.connected of the GATT server held by serverRef
    pc,                     \* position of the pending connectBluetooth call
    capSessionActive,       \* sessionActive of the render whose connectBluetooth is running
    subscribed,             \* a characteristicvaluechanged listener is registered on the live link
    listenerSessionActive,  \* sessionActive closed over by the registered listener
    hasBluetooth,           \* navigator.bluetooth is defined on this platform
    variant,                \* which App of the file runs: 1 (line 79) or 2 (line 888)
    devPos,                 \* how much of its output stream the peripheral has sent
    lastJoined,             \* history variable: the buffer of the last push right after the append
    lastFrames,             \* history variable: the frames the last push handed to the decoder
    lastAccepted,           \* history variable: the last push built a sample
    outFrames,              \* history variable: every frame handed to the decoder, in order
    nPush,                  \* history variable: number of chunks delivered
    nTick,                  \* history variable: number of simulation ticks
    appended,               \* history variable: every sample appended since the last reset
    aiReport,               \* useState, line 85
    isGeneratingReport,     \* useState, line 86
    hasApiKey,              \* useState, line 90
    genPc,                  \* position of the pending generateAIReport call
    stats,                  \* the stats object of the last request built, lines 330-336
    envApiKey,              \* process.env.API_KEY is set in this build
    hasAiStudio,            \* window.aistudio is defined on this platform
    clearedInFlight,        \* history variable: handleClear ran while the last report request was in flight
    cancelled               \* history variable: Desconectar was clicked while the pending attempt was looking up the service

appVars  == <<isConnected, isSimulating, sessionActive, deviceError, btStatus>>
dataVars == <<currentData, history, appended>>
connVars == <<serverRefSet, linkUp, pc, capSessionActive, subscribed, listenerSessionActive>>
pushVars == <<buffer, lastJoined, lastFrames, lastAccepted, outFrames, nPush>>
envVars  == <<hasBluetooth, variant, envApiKey, hasAiStudio>>
reportVars == <<aiReport, isGeneratingReport, hasApiKey, genPc, stats, clearedInFlight>>
vars == <<appVars, dataVars, connVars, pushVars, envVars, reportVars, cancelled, devPos, nTick>>

(***************************************************************************)
(* Text                                                                    *)
(***************************************************************************)
LF == "LF"
CR == "CR"
\* A parse result is <<n>> for the number n and <<>> for NaN
NaN == <<>>
Num(n) == <<n>>

Min(a, b) == IF a < b THEN a ELSE b
Max(a, b) == IF a > b THEN a ELSE b

\* String.prototype.includes for a single character
Includes(s, c) == \E i \in 1..Len(s) : s[i] = c

\* String.prototype.split(sep) for a one-character separator: the segments
\* between the separators, empty ones kept; never an empty list.
RECURSIVE SplitFrom(_, _, _, _)
SplitFrom(s, sep, i, cur) ==
    IF i > Len(s) THEN <<cur>>
    ELSE IF s[i] = sep THEN <<cur>> \o SplitFrom(s, sep, i + 1, <<>>)
    ELSE SplitFrom(s, sep, i + 1, Append(cur, s[i]))

SplitOn(s, sep) == SplitFrom(s, sep, 1, <<>>)

\* String.prototype.split(/\r?\n/): a line feed ends a segment, and a carriage
\* return right before it belongs to the separator.
RECURSIVE SplitLinesFrom(_, _, _)
SplitLinesFrom(s, i, cur) ==
    IF i > Len(s) THEN <<cur>>
    ELSE IF s[i] = LF THEN <<cur>> \o SplitLinesFrom(s, i + 1, <<>>)
    ELSE IF s[i] = CR /\ i < Len(s) /\ s[i + 1] = LF
         THEN <<cur>> \o SplitLinesFrom(s, i + 2, <<>>)
    ELSE SplitLinesFrom(s, i + 1, Append(cur, s[i]))

SplitLines(s) == SplitLinesFrom(s, 1, <<>>)

WhiteSpace == {" ", CR, LF}

\* String.prototype.trim
RECURSIVE TrimLeft(_)
TrimLeft(s) ==
    IF s # <<>> /\ Head(s) \in WhiteSpace THEN TrimLeft(Tail(s)) ELSE s

RECURSIVE TrimRight(_)
TrimRight(s) ==
    IF s # <<>> /\ s[Len(s)] \in WhiteSpace
    THEN TrimRight(SubSeq(s, 1, Len(s) - 1)) ELSE s

Trim(s) == TrimRight(TrimLeft(s))

DecDigits == {"0", "1", "2", "3", "4", "5", "6", "7", "8", "9"}
HexDigits == DecDigits \cup {"a", "b", "c", "d", "e", "f"}

DigitVal(c) ==
    CASE c = "0" -> 0 [] c = "1" -> 1 [] c = "2" -> 2 [] c = "3" -> 3
      [] c = "4" -> 4 [] c = "5" -> 5 [] c = "6" -> 6 [] c = "7" -> 7
      [] c = "8" -> 8 [] c = "9" -> 9 [] c = "a" -> 10 [] c = "b" -> 11
      [] c = "c" -> 12 [] c = "d" -> 13 [] c = "e" -> 14 [] c = "f" -> 15

\* The longest prefix of s made of characters of ds, read in base radix;
\* NaN when that prefix is empty.
RECURSIVE DigitsPrefix(_, _, _, _, _)
DigitsPrefix(s, ds, radix, acc, any) ==
    IF s # <<>> /\ Head(s) \in ds
    THEN DigitsPrefix(Tail(s), ds, radix, acc * radix + DigitVal(Head(s)), TRUE)
    ELSE IF any THEN Num(acc) ELSE NaN

\* parseInt(text) without a radix: leading white space skipped, an optional
\* sign, a 0x prefix selects base 16, then the longest run of digits; what
\* follows the digits is ignored; NaN when there is no digit.
ParseUnsigned(s) ==
    IF Len(s) >= 2 /\ s[1] = "0" /\ s[2] = "x"
    THEN DigitsPrefix(SubSeq(s, 3, Len(s)), HexDigits, 16, 0, FALSE)
    ELSE DigitsPrefix(s, DecDigits, 10, 0, FALSE)

ParseInt(text) ==
    LET s == TrimLeft(text) IN
    IF s # <<>> /\ Head(s) = "-"
    THEN LET n == ParseUnsigned(Tail(s)) IN IF n = NaN THEN NaN ELSE Num(0 - n[1])
    ELSE IF s # <<>> /\ Head(s) = "+" THEN ParseUnsigned(Tail(s))
    ELSE ParseUnsigned(s)

IsNaN(v) == v = NaN

\* v || 0
OrZero(v) == IF v = NaN THEN 0 ELSE v[1]

(***************************************************************************)
(* Samples and the history                                                 *)
(***************************************************************************)
MkSample(p, i, m, a, n) ==
    [pulgar |-> p, indice |-> i, medio |-> m, anular |-> a, menique |-> n]

ZeroSample == MkSample(0, 0, 0, 0, 0)

Channels(s) == <<s.pulgar, s.indice, s.medio, s.anular, s.menique>>

HistoryCap1 == 60
HistoryCap2 == 50
HistoryCap == IF variant = 1 THEN HistoryCap1 ELSE HistoryCap2

\* newHistory.slice(0, cap) in place of newHistory.slice(newHistory.length - cap)
AppendHistoryKeepOldest(prev, newData, cap) ==
    LET newHistory == Append(prev, newData) IN
    IF Len(newHistory) > cap THEN SubSeq(newHistory, 1, cap) ELSE newHistory

\* The updater passed to setHistory: [...prev, newData], cut to its last cap
\* elements when longer.
AppendHistory(prev, newData, cap) ==
    LET newHistory == Append(prev, newData) IN
    IF Len(newHistory) > cap
    THEN SubSeq(newHistory, Len(newHistory) - cap + 1, Len(newHistory))
    ELSE newHistory

(***************************************************************************)
(* handleCharacteristicValueChanged, as functions of the buffer after the  *)
(* append (bufferRef.current += chunk)                                     *)
(***************************************************************************)
SafetyThreshold == 50
MinFields == 5

\* line 140
Triggers(b) == Includes(b, LF) \/ Len(SplitOn(b, ",")) >= MinFields

\* line 144
DataString(b) ==
    LET lines == SplitLines(b) IN
    IF Len(lines) > 1 THEN lines[Len(lines) - 1] ELSE b

\* lines 147-151, reached only when Triggers(b)
BufferAfter(b) ==
    LET lines == SplitLines(b) IN
    IF ~Triggers(b) THEN b
    ELSE IF Len(lines) > 1 THEN lines[Len(lines)]
    ELSE IF Len(b) > SafetyThreshold THEN <<>>
    ELSE b

\* line 153
ParseValues(dataString) ==
    LET fields == SplitOn(dataString, ",") IN
    [k \in 1..Len(fields) |-> ParseInt(Trim(fields[k]))]

\* line 155
Accepts(values) ==
    Len(values) >= MinFields /\ ~\E k \in 1..Len(values) : IsNaN(values[k])

\* lines 159-166
NewData(values) ==
    MkSample(OrZero(values[1]), OrZero(values[2]), OrZero(values[3]),
             OrZero(values[4]), OrZero(values[5]))

\* The frames one push hands to the decoder
FramesOf(b) == IF Triggers(b) THEN <<DataString(b)>> ELSE <<>>

\* A handler that shows an accepted frame only while capturing
HandleChunkGated(chunk) ==
    LET b == buffer \o chunk
        values == ParseValues(DataString(b))
        ok == Triggers(b) /\ Accepts(values)
    IN  /\ buffer' = BufferAfter(b)
        /\ lastJoined' = b
        /\ lastFrames' = FramesOf(b)
        /\ lastAccepted' = ok
        /\ outFrames' = outFrames \o FramesOf(b)
        /\ nPush' = nPush + 1
        /\ IF ok /\ listenerSessionActive
           THEN /\ currentData' = NewData(values)
                /\ history' = AppendHistory(history, NewData(values), HistoryCap1)
                /\ appended' = Append(appended, NewData(values))
           ELSE UNCHANGED <<currentData, history, appended>>

\* The whole handler; the listener reads the sessionActive it closed over.
HandleChunk(chunk) ==
    LET b == buffer \o chunk
        values == ParseValues(DataString(b))
        ok == Triggers(b) /\ Accepts(values)
    IN  /\ buffer' = BufferAfter(b)
        /\ lastJoined' = b
        /\ lastFrames' = FramesOf(b)
        /\ lastAccepted' = ok
        /\ outFrames' = outFrames \o FramesOf(b)
        /\ nPush' = nPush + 1
        /\ currentData' = IF ok THEN NewData(values) ELSE currentData
        /\ IF ok /\ listenerSessionActive
           THEN /\ history' = AppendHistory(history, NewData(values), HistoryCap1)
                /\ appended' = Append(appended, NewData(values))
           ELSE UNCHANGED <<history, appended>>

\* A chunk of the transport reaches the registered listener
DeliverChunk(chunk) ==
    /\ subscribed /\ linkUp
    /\ HandleChunk(chunk)
    /\ UNCHANGED <<appVars, connVars, envVars, reportVars, cancelled, devPos, nTick>>

\* The peripheral sends the next n characters of its output stream
DeliverNext(stream, n) ==
    /\ subscribed /\ linkUp
    /\ devPos + n <= Len(stream)
    /\ HandleChunk(SubSeq(stream, devPos + 1, devPos + n))
    /\ devPos' = devPos + n
    /\ UNCHANGED <<appVars, connVars, envVars, reportVars, cancelled, nTick>>

\* The peripheral sends its frames one per chunk, over and over
DeliverFrameOf(frames) ==
    /\ subscribed /\ linkUp
    /\ HandleChunk(frames[devPos + 1])
    /\ devPos' = (devPos + 1) % Len(frames)
    /\ UNCHANGED <<appVars, connVars, envVars, reportVars, cancelled, nTick>>

(***************************************************************************)
(* connectBluetooth (lines 181-256), one action per await                  *)
(***************************************************************************)
ErrorMessage(name) ==
    CASE name = "NotFoundError" -> "Usuario cancelo la seleccion."
      [] name = "SecurityError" -> "Permiso denegado."
      [] OTHER -> "Error. Intenta reconectar."

\* catch (error), lines 244-255
CatchError(name) ==
    /\ btStatus' = ""
    /\ isConnected' = FALSE
    /\ deviceError' = ErrorMessage(name)
    /\ pc' = "idle"

\* The connect button (lines 498-501) is on the connection screen, which is
\* rendered while isConnected is false (line 464), and is disabled while
\* btStatus is set.  Lines 182-188.
ConnectClick ==
    /\ variant = 1
    /\ ~isConnected /\ btStatus = "" /\ pc = "idle"
    /\ btStatus' = "Escaneando..."
    /\ IF ~hasBluetooth
       THEN /\ deviceError' = "Tu navegador no soporta Bluetooth Web."
            /\ UNCHANGED <<pc, capSessionActive>>
       ELSE /\ deviceError' = ""
            /\ pc' = "requestDevice"
            /\ capSessionActive' = sessionActive
    /\ cancelled' = FALSE
    /\ UNCHANGED <<isConnected, isSimulating, sessionActive, dataVars, serverRefSet,
                   linkUp, subscribed, listenerSessionActive, pushVars, envVars,
                   reportVars, devPos, nTick>>

\* await navigator.bluetooth.requestDevice, lines 192-199
RequestDeviceDone(outcome) ==
    /\ pc = "requestDevice"
    /\ IF outcome = "ok"
       THEN /\ btStatus' = "Conectando al servidor GATT..."
            /\ pc' = "gattConnect"
            /\ UNCHANGED <<isConnected, deviceError>>
       ELSE CatchError(outcome)
    /\ UNCHANGED <<isSimulating, sessionActive, dataVars, serverRefSet, linkUp,
                   capSessionActive, subscribed, listenerSessionActive, pushVars,
                   envVars, reportVars, cancelled, devPos, nTick>>

\* await device.gatt?.connect(), lines 201-205
GattConnectDone(ok) ==
    /\ pc = "gattConnect"
    /\ IF ok
       THEN /\ serverRefSet' = TRUE
            /\ linkUp' = TRUE
            /\ btStatus' = "Buscando servicio Serial..."
            /\ pc' = "service1"
            /\ UNCHANGED <<isConnected, deviceError>>
       ELSE /\ CatchError("NetworkError")
            /\ UNCHANGED <<serverRefSet, linkUp>>
    /\ UNCHANGED <<isSimulating, sessionActive, dataVars, capSessionActive,
                   subscribed, listenerSessionActive, pushVars, envVars, reportVars, cancelled, devPos, nTick>>

\* A first lookup whose failure ends the attempt, without the second lookup
Service1DoneNoFallback(ok) ==
    /\ pc = "service1"
    /\ ok => linkUp
    /\ IF ok
       THEN /\ btStatus' = "Configurando notificaciones..."
            /\ pc' = "char1"
            /\ UNCHANGED <<deviceError, linkUp, subscribed>>
       ELSE /\ deviceError' = "No se encontro el servicio Serial (FFE0)."
            /\ linkUp' = FALSE
            /\ subscribed' = FALSE
            /\ btStatus' = ""
            /\ pc' = "idle"
    /\ UNCHANGED <<isConnected, isSimulating, sessionActive, dataVars, serverRefSet,
                   capSessionActive, listenerSessionActive, pushVars, envVars,
                   reportVars, cancelled, devPos, nTick>>

\* await server.getPrimaryService(0xFFE0), lines 211-215
Service1Done(ok) ==
    /\ pc = "service1"
    /\ ok => linkUp
    /\ IF ok
       THEN /\ btStatus' = "Configurando notificaciones..."
            /\ pc' = "char1"
       ELSE /\ pc' = "service2"
            /\ UNCHANGED btStatus
    /\ UNCHANGED <<isConnected, isSimulating, sessionActive, deviceError, dataVars,
                   serverRefSet, linkUp, capSessionActive, subscribed,
                   listenerSessionActive, pushVars, envVars, reportVars, cancelled, devPos, nTick>>

\* await server.getPrimaryService('0000ffe0-...'), lines 216-227
Service2Done(ok) ==
    /\ pc = "service2"
    /\ ok => linkUp
    /\ IF ok
       THEN /\ btStatus' = "Configurando notificaciones..."
            /\ pc' = "char1"
            /\ UNCHANGED <<deviceError, linkUp, subscribed>>
       ELSE /\ deviceError' = "No se encontro el servicio Serial (FFE0)."
            /\ linkUp' = FALSE
            /\ subscribed' = FALSE
            /\ btStatus' = ""
            /\ pc' = "idle"
    /\ UNCHANGED <<isConnected, isSimulating, sessionActive, dataVars, serverRefSet,
                   capSessionActive, listenerSessionActive, pushVars, envVars, reportVars, cancelled,
                   devPos, nTick>>

\* await service.getCharacteristic(0xFFE1), line 229
Char1Done(ok) ==
    /\ pc = "char1"
    /\ ok => linkUp
    /\ pc' = IF ok THEN "startNotifications" ELSE "char2"
    /\ UNCHANGED <<appVars, dataVars, serverRefSet, linkUp, capSessionActive,
                   subscribed, listenerSessionActive, pushVars, envVars, reportVars, cancelled, devPos, nTick>>

\* .catch(() => service?.getCharacteristic('0000ffe1-...')), line 230; its
\* rejection reaches the catch of line 244
Char2Done(ok) ==
    /\ pc = "char2"
    /\ ok => linkUp
    /\ IF ok
       THEN /\ pc' = "startNotifications"
            /\ UNCHANGED <<isConnected, deviceError, btStatus>>
       ELSE CatchError("NotFoundCharacteristic")
    /\ UNCHANGED <<isSimulating, sessionActive, dataVars, serverRefSet, linkUp,
                   capSessionActive, subscribed, listenerSessionActive, pushVars,
                   envVars, reportVars, cancelled, devPos, nTick>>

\* await characteristic.startNotifications() and lines 234-238.  The listener
\* registered is the handleCharacteristicValueChanged of the render in which
\* the connect button was clicked.
StartNotificationsDone(ok) ==
    /\ pc = "startNotifications"
    /\ ok => linkUp
    /\ IF ok
       THEN /\ subscribed' = TRUE
            /\ listenerSessionActive' = capSessionActive
            /\ isConnected' = TRUE
            /\ sessionActive' = TRUE
            /\ btStatus' = ""
            /\ pc' = "idle"
            /\ UNCHANGED deviceError
       ELSE /\ CatchError("NetworkError")
            /\ UNCHANGED <<sessionActive, subscribed, listenerSessionActive>>
    /\ UNCHANGED <<isSimulating, dataVars, serverRefSet, linkUp, capSessionActive,
                   pushVars, envVars, reportVars, cancelled, devPos, nTick>>

\* The peripheral goes away; the App registers no gattserverdisconnected
\* listener.  The characteristic objects of the link die with it.
TransportDrop ==
    /\ linkUp
    /\ linkUp' = FALSE
    /\ subscribed' = FALSE
    /\ UNCHANGED <<appVars, dataVars, serverRefSet, pc, capSessionActive,
                   listenerSessionActive, pushVars, envVars, reportVars, cancelled, devPos, nTick>>

(***************************************************************************)
(* The other handlers                                                      *)
(***************************************************************************)
\* A Desconectar that only leaves the dashboard, as line 1102 does
DisconnectClickKeepsLink ==
    /\ isConnected
    /\ isConnected' = FALSE
    /\ cancelled' = (cancelled \/ pc \in {"service1", "service2"})
    /\ UNCHANGED <<isSimulating, sessionActive, deviceError, btStatus, dataVars,
                   serverRefSet, linkUp, subscribed, pc, capSessionActive,
                   listenerSessionActive, pushVars, envVars, reportVars, devPos, nTick>>

\* The Desconectar button of the dashboard, lines 559-564 (variant 2: line 1102)
DisconnectClick ==
    /\ isConnected
    /\ isConnected' = FALSE
    /\ IF variant = 1 /\ serverRefSet
       THEN linkUp' = FALSE /\ subscribed' = FALSE
       ELSE UNCHANGED <<linkUp, subscribed>>
    /\ cancelled' = (cancelled \/ pc \in {"service1", "service2"})
    /\ UNCHANGED <<isSimulating, sessionActive, deviceError, btStatus, dataVars,
                   serverRefSet, pc, capSessionActive, listenerSessionActive,
                   pushVars, envVars, reportVars, devPos, nTick>>

\* A demo toggle that also empties the history
ToggleSimulationClears ==
    /\ ~isConnected
    /\ IF isSimulating
       THEN isSimulating' = FALSE /\ isConnected' = FALSE /\ sessionActive' = FALSE
       ELSE isSimulating' = TRUE /\ isConnected' = TRUE /\ sessionActive' = TRUE
    /\ history' = <<>>
    /\ UNCHANGED <<deviceError, btStatus, currentData, appended, connVars, pushVars,
                   envVars, reportVars, cancelled, devPos, nTick>>

\* toggleSimulation, lines 259-271; its button is on the connection screen
ToggleSimulation ==
    /\ ~isConnected
    /\ IF isSimulating
       THEN isSimulating' = FALSE /\ isConnected' = FALSE /\ sessionActive' = FALSE
       ELSE isSimulating' = TRUE /\ isConnected' = TRUE /\ sessionActive' = TRUE
    /\ UNCHANGED <<deviceError, btStatus, dataVars, connVars, pushVars, envVars, reportVars, cancelled,
                   devPos, nTick>>

\* A pause that also drops what the reassembly buffer holds
TogglePauseResetsBuffer ==
    /\ isConnected
    /\ sessionActive' = ~sessionActive
    /\ buffer' = <<>>
    /\ UNCHANGED <<isConnected, isSimulating, deviceError, btStatus, dataVars,
                   connVars, lastJoined, lastFrames, lastAccepted, outFrames, nPush,
                   envVars, reportVars, cancelled, devPos, nTick>>

\* The pause/resume button of the dashboard, lines 587-589
TogglePause ==
    /\ isConnected
    /\ sessionActive' = ~sessionActive
    /\ UNCHANGED <<isConnected, isSimulating, deviceError, btStatus, dataVars,
                   connVars, pushVars, envVars, reportVars, cancelled, devPos, nTick>>

\* A reset that drops the oldest sample only
HandleClearDropsOldest ==
    /\ isConnected
    /\ history' = IF history = <<>> THEN <<>> ELSE Tail(history)
    /\ currentData' = ZeroSample
    /\ appended' = <<>>
    /\ aiReport' = ""
    /\ clearedInFlight' = (clearedInFlight \/ genPc = "generateContent")
    /\ UNCHANGED <<appVars, connVars, pushVars, envVars, isGeneratingReport, hasApiKey,
                   genPc, stats, cancelled, devPos, nTick>>

\* handleClear, lines 308-312; its button is on the dashboard
HandleClear ==
    /\ isConnected
    /\ history' = <<>>
    /\ currentData' = ZeroSample
    /\ appended' = <<>>
    /\ aiReport' = ""
    /\ clearedInFlight' = (clearedInFlight \/ genPc = "generateContent")
    /\ UNCHANGED <<appVars, connVars, pushVars, envVars, isGeneratingReport, hasApiKey,
                   genPc, stats, cancelled, devPos, nTick>>

\* A clamp without the lower limit
ClampAbove(v) == Min(180, v)

Clamp(v) == Max(0, Min(180, v))

\* The interval of the simulation effect is running (line 277; variant 2: line 951)
TickArmed ==
    IF variant = 1 THEN isSimulating /\ sessionActive
    ELSE isConnected /\ sessionActive

\* One firing of the interval, lines 278-298.  d = <<k, u1, u2, u3, u4>>: k is
\* Math.floor(Math.random() * 40), u1..u4 are the four Math.random() > 0.5.
SimSample(cur, d) ==
    MkSample(d[1] + (IF cur.pulgar > 150 THEN 0 ELSE 20),
             Clamp(cur.indice + (IF d[2] THEN 10 ELSE -10)),
             Clamp(cur.medio + (IF d[3] THEN 15 ELSE -5)),
             Clamp(cur.anular + (IF d[4] THEN 5 ELSE -5)),
             Clamp(cur.menique + (IF d[5] THEN 8 ELSE -8)))

SimTick(d) ==
    /\ TickArmed
    /\ currentData' = SimSample(currentData, d)
    /\ history' = AppendHistory(history, SimSample(currentData, d), HistoryCap)
    /\ appended' = Append(appended, SimSample(currentData, d))
    /\ nTick' = nTick + 1
    /\ UNCHANGED <<appVars, connVars, pushVars, envVars, reportVars, cancelled, devPos>>

(***************************************************************************)
(* generateAIReport (lines 315-382) and handleConnectGemini (lines 117-128)*)
(***************************************************************************)
\* history.reduce((a, b) => a + b[f], 0)
RECURSIVE SumField(_, _)
SumField(h, f) ==
    IF h = <<>> THEN 0
    ELSE SumField(SubSeq(h, 1, Len(h) - 1), f) + h[Len(h)][f]

\* Math.max(...history.map(h => h[f])), history not empty
RECURSIVE MathMax(_, _)
MathMax(h, f) ==
    IF Len(h) = 1 THEN h[1][f]
    ELSE Max(MathMax(SubSeq(h, 1, Len(h) - 1), f), h[Len(h)][f])

\* The quotient cut down to an integer
MathFloor(num, den) == num \div den

\* Math.round(num / den), den > 0: the nearest integer, a half goes up
MathRound(num, den) == (2 * num + den) \div (2 * den)

\* Lines 330-336
Stats(h) ==
    [muestras |-> Len(h),
     promedio_indice |-> MathRound(SumField(h, "indice"), Len(h)),
     max_indice |-> MathMax(h, "indice"),
     promedio_medio |-> MathRound(SumField(h, "medio"), Len(h)),
     max_medio |-> MathMax(h, "medio")]

ReportMin == 5

\* A generate button that is enabled whatever the history holds
GenerateEnabledAnyLength ==
    /\ isConnected /\ hasApiKey
    /\ ~isGeneratingReport

\* The generate button is on the dashboard, rendered while hasApiKey is true
\* (line 697), and disabled as line 715 says
GenerateEnabled ==
    /\ isConnected /\ hasApiKey
    /\ ~isGeneratingReport /\ Len(history) >= ReportMin

\* A click on the generate button: generateAIReport up to its await
GenerateClick ==
    /\ GenerateEnabled
    /\ IF ~envApiKey /\ ~hasApiKey
       THEN /\ aiReport' = "Error: Debes conectar tu cuenta de Google Gemini primero."
            /\ UNCHANGED <<isGeneratingReport, genPc, stats, clearedInFlight>>
       ELSE IF Len(history) = 0
            THEN UNCHANGED <<aiReport, isGeneratingReport, genPc, stats, clearedInFlight>>
            ELSE /\ isGeneratingReport' = TRUE
                 /\ aiReport' = ""
                 /\ stats' = Stats(history)
                 /\ genPc' = "generateContent"
                 /\ clearedInFlight' = FALSE
    /\ UNCHANGED <<appVars, dataVars, connVars, pushVars, envVars, hasApiKey,
                   cancelled, devPos, nTick>>

\* A settle without the finally of line 379: the throw of line 368 skips the reset
GenerateDoneNoFinally(outcome) ==
    /\ genPc = "generateContent"
    /\ aiReport' =
         CASE outcome = "text" -> "Informe"
           [] outcome = "empty" -> "Gemini no devolvio texto."
           [] outcome = "403" /\ hasAiStudio ->
                "Error de permisos (API Key invalida o cuota excedida). Por favor, vuelve a vincular tu cuenta."
           [] outcome = "403" /\ ~hasAiStudio ->
                "Error de permisos (API Key invalida o cuota excedida)."
           [] outcome = "fetch" -> "Error de conexion a internet."
           [] outcome = "other" -> "Error conectando con Gemini."
           [] OTHER -> aiReport
    /\ hasApiKey' = IF outcome = "403" /\ hasAiStudio THEN FALSE ELSE hasApiKey
    /\ isGeneratingReport' = (outcome = "nomessage")
    /\ genPc' = "idle"
    /\ UNCHANGED <<appVars, dataVars, connVars, pushVars, envVars, stats,
                   clearedInFlight, cancelled, devPos, nTick>>

\* await ai.models.generateContent settles, lines 361-381.  outcome is "text",
\* "empty" (response.text is empty), or the kind of the error thrown:
\* "403", "fetch", "other", or "nomessage" for a thrown value without a
\* message, on which line 368 throws inside the catch.
GenerateDone(outcome) ==
    /\ genPc = "generateContent"
    /\ aiReport' =
         CASE outcome = "text" -> "Informe"
           [] outcome = "empty" -> "Gemini no devolvio texto."
           [] outcome = "403" /\ hasAiStudio ->
                "Error de permisos (API Key invalida o cuota excedida). Por favor, vuelve a vincular tu cuenta."
           [] outcome = "403" /\ ~hasAiStudio ->
                "Error de permisos (API Key invalida o cuota excedida)."
           [] outcome = "fetch" -> "Error de conexion a internet."
           [] outcome = "other" -> "Error conectando con Gemini."
           [] OTHER -> aiReport
    /\ hasApiKey' = IF outcome = "403" /\ hasAiStudio THEN FALSE ELSE hasApiKey
    /\ isGeneratingReport' = FALSE
    /\ genPc' = "idle"
    /\ UNCHANGED <<appVars, dataVars, connVars, pushVars, envVars, stats,
                   clearedInFlight, cancelled, devPos, nTick>>

\* handleConnectGemini once openSelectKey has resolved; its button is shown
\* on the dashboard while hasApiKey is false (lines 727-739)
ConnectGemini ==
    /\ isConnected /\ ~hasApiKey
    /\ hasAiStudio
    /\ hasApiKey' = TRUE
    /\ UNCHANGED <<appVars, dataVars, connVars, pushVars, envVars, aiReport,
                   isGeneratingReport, genPc, stats, clearedInFlight, cancelled,
                   devPos, nTick>>

(***************************************************************************)
(* The App from construction                                               *)
(***************************************************************************)
ChunkFrame == <<"1", ",", "2", ",", "3", ",", "4", ",", "5", LF>>
ChunkHead == <<"1", ",", "2", ",", "3">>
ChunkLetter == <<"a", ",", "2", ",", "3", ",", "4", ",", "5", LF>>

Chunks == {ChunkFrame, ChunkHead, ChunkLetter}
SimDraws == {<<0, TRUE, TRUE, TRUE, TRUE>>, <<39, FALSE, FALSE, FALSE, FALSE>>}
RequestOutcomes == {"ok", "NotFoundError", "SecurityError"}

\* At most MaxEvents chunks and simulation ticks in one run
MaxEvents == 3

\* No request has been built yet
NoStats ==
    [muestras |-> 0, promedio_indice |-> 0, max_indice |-> 0,
     promedio_medio |-> 0, max_medio |-> 0]

\* checkKey (lines 104-114) on a platform without AI Studio and without a key
NoKey == envApiKey = FALSE /\ hasAiStudio = FALSE /\ hasApiKey = FALSE

InitApp ==
    /\ isConnected = FALSE /\ isSimulating = FALSE /\ sessionActive = FALSE
    /\ currentData = ZeroSample /\ history = <<>>
    /\ deviceError = "" /\ btStatus = ""
    /\ buffer = <<>>
    /\ serverRefSet = FALSE /\ linkUp = FALSE
    /\ pc = "idle" /\ capSessionActive = FALSE
    /\ subscribed = FALSE /\ listenerSessionActive = FALSE
    /\ devPos = 0
    /\ lastJoined = <<>> /\ lastFrames = <<>> /\ lastAccepted = FALSE
    /\ outFrames = <<>> /\ nPush = 0 /\ nTick = 0 /\ appended = <<>>
    /\ aiReport = "" /\ isGeneratingReport = FALSE /\ genPc = "idle" /\ stats = NoStats
    /\ clearedInFlight = FALSE
    /\ cancelled = FALSE

Init ==
    /\ InitApp
    /\ NoKey
    /\ variant = 1
    /\ hasBluetooth \in BOOLEAN

Next ==
    \/ ConnectClick
    \/ \E o \in RequestOutcomes : RequestDeviceDone(o)
    \/ \E ok \in BOOLEAN : GattConnectDone(ok)
    \/ \E ok \in BOOLEAN : Service1Done(ok)
    \/ \E ok \in BOOLEAN : Service2Done(ok)
    \/ \E ok \in BOOLEAN : Char1Done(ok)
    \/ \E ok \in BOOLEAN : Char2Done(ok)
    \/ \E ok \in BOOLEAN : StartNotificationsDone(ok)
    \/ nPush + nTick < MaxEvents /\ \E c \in Chunks : DeliverChunk(c)
    \/ TransportDrop
    \/ DisconnectClick
    \/ ToggleSimulation
    \/ TogglePause
    \/ HandleClear
    \/ nPush + nTick < MaxEvents /\ \E d \in SimDraws : SimTick(d)

Spec == Init /\ [][Next]_vars

(***************************************************************************)
(* The chunk handler alone: a real-device session that is streaming (the   *)
(* state left by lines 232-238), fed chunks from a richer set              *)
(***************************************************************************)
StreamingState ==
    /\ isConnected = TRUE /\ isSimulating = FALSE
    /\ currentData = ZeroSample /\ history = <<>>
    /\ deviceError = "" /\ btStatus = ""
    /\ buffer = <<>>
    /\ serverRefSet = TRUE /\ linkUp = TRUE
    /\ pc = "idle" /\ subscribed = TRUE
    /\ devPos = 0
    /\ lastJoined = <<>> /\ lastFrames = <<>> /\ lastAccepted = FALSE
    /\ outFrames = <<>> /\ nPush = 0 /\ nTick = 0 /\ appended = <<>>
    /\ aiReport = "" /\ isGeneratingReport = FALSE /\ genPc = "idle" /\ stats = NoStats
    /\ clearedInFlight = FALSE
    /\ cancelled = FALSE
    /\ variant = 1 /\ hasBluetooth = TRUE

ChunkTwoFrames == <<"6", ",", "7", ",", "8", ",", "9", ",", "1", "0", LF, "7", ",", "7", ",", "7", ",", "7", ",", "7", LF>>
ChunkGarbage == <<"x", "x", "x", "x", "x", "x", "x", "x", "x", "x", "x", "x", "x", "x", "x", "x", "x">>
ChunkTailBad == <<",", "4", ",", "5", "x", LF>>
ChunkSixth == <<"1", ",", "2", ",", "3", ",", "4", ",", "5", ",", "x", LF>>
ChunkFour == <<"1", ",", "2", ",", "3", ",", "4", LF>>
ChunkCrLf == <<"9", ",", "8", ",", "7", ",", "6", ",", "5", CR, LF>>
ChunkWide == <<"2", "0", "0", ",", "-", "3", ",", " ", "7", " ", ",", "+", "3", "1", ",", "0", LF>>
ChunkBare == <<"3", ",", "3", ",", "3", ",", "3", ",", "3">>

PushChunks ==
    {ChunkFrame, ChunkHead, ChunkLetter, ChunkTwoFrames, ChunkGarbage, ChunkTailBad,
     ChunkSixth, ChunkFour, ChunkCrLf, ChunkWide, ChunkBare}

\* At most PushDepth chunks in one run of SpecPush
PushDepth == 3

InitPush ==
    /\ StreamingState
    /\ NoKey
    /\ sessionActive \in BOOLEAN
    /\ listenerSessionActive \in BOOLEAN
    /\ capSessionActive = listenerSessionActive

NextPush == nPush < PushDepth /\ \E c \in PushChunks : DeliverChunk(c)

SpecPush == InitPush /\ [][NextPush]_vars

(***************************************************************************)
(* The peripheral sends two frames, cut into chunks at any places          *)
(***************************************************************************)
Frame1 == <<"1", "0", ",", "2", "0", ",", "3", "0", ",", "4", "0", ",", "5", "0">>
Frame2 == <<"6", "0", ",", "7", "0", ",", "8", "0", ",", "9", "0", ",", "1", "0", "0">>
Stream2 == Frame1 \o <<LF>> \o Frame2 \o <<LF>>

NextSplit == \E n \in 1..Len(Stream2) : DeliverNext(Stream2, n)

SpecSplit == InitPush /\ [][NextSplit]_vars

(***************************************************************************)
(* Long sessions: one source appends sample after sample.  The session is  *)
(* a demo session of either App (the state left by toggleSimulation) or a  *)
(* real-device session whose listener closed over sessionActive = true.    *)
(***************************************************************************)
DemoState ==
    /\ isConnected = TRUE /\ isSimulating = TRUE /\ sessionActive = TRUE
    /\ currentData = ZeroSample /\ history = <<>>
    /\ deviceError = "" /\ btStatus = ""
    /\ buffer = <<>>
    /\ serverRefSet = FALSE /\ linkUp = FALSE
    /\ pc = "idle" /\ capSessionActive = FALSE
    /\ subscribed = FALSE /\ listenerSessionActive = FALSE
    /\ devPos = 0
    /\ lastJoined = <<>> /\ lastFrames = <<>> /\ lastAccepted = FALSE
    /\ outFrames = <<>> /\ nPush = 0 /\ nTick = 0 /\ appended = <<>>
    /\ aiReport = "" /\ isGeneratingReport = FALSE /\ genPc = "idle" /\ stats = NoStats
    /\ clearedInFlight = FALSE
    /\ cancelled = FALSE
    /\ hasBluetooth = TRUE

HistFrames == <<ChunkFrame, ChunkCrLf, ChunkWide>>
HistDraw == <<7, TRUE, FALSE, TRUE, TRUE>>

\* At most MaxAppends chunks and simulation ticks in one run of SpecHistory
MaxAppends == 62

InitHistory ==
    \/ DemoState /\ NoKey /\ variant \in {1, 2}
    \/ /\ StreamingState
       /\ NoKey
       /\ sessionActive = TRUE
       /\ listenerSessionActive = TRUE
       /\ capSessionActive = TRUE

NextHistory ==
    \/ nPush + nTick < MaxAppends /\ DeliverFrameOf(HistFrames)
    \/ nPush + nTick < MaxAppends /\ SimTick(HistDraw)
    \/ TogglePause
    \/ HandleClear

SpecHistory == InitHistory /\ [][NextHistory]_vars

(***************************************************************************)
(* The simulation alone: a demo session of either App whose current sample *)
(* is whatever an earlier session left (zeros, or a frame of the device)   *)
(***************************************************************************)
TickStarts ==
    {ZeroSample, MkSample(200, -3, 7, 31, 0), MkSample(151, 180, 175, 178, 176)}
TickDraws ==
    {<<0, TRUE, TRUE, TRUE, TRUE>>, <<39, FALSE, FALSE, FALSE, FALSE>>,
     <<19, TRUE, FALSE, TRUE, FALSE>>, <<20, FALSE, TRUE, FALSE, TRUE>>}

\* At most MaxTicks simulation ticks in one run of SpecTick
MaxTicks == 5

InitTick ==
    /\ isConnected = TRUE /\ isSimulating = TRUE /\ sessionActive = TRUE
    /\ currentData \in TickStarts /\ history = <<>>
    /\ deviceError = "" /\ btStatus = ""
    /\ buffer = <<>>
    /\ serverRefSet = FALSE /\ linkUp = FALSE
    /\ pc = "idle" /\ capSessionActive = FALSE
    /\ subscribed = FALSE /\ listenerSessionActive = FALSE
    /\ devPos = 0
    /\ lastJoined = <<>> /\ lastFrames = <<>> /\ lastAccepted = FALSE
    /\ outFrames = <<>> /\ nPush = 0 /\ nTick = 0 /\ appended = <<>>
    /\ aiReport = "" /\ isGeneratingReport = FALSE /\ genPc = "idle" /\ stats = NoStats
    /\ clearedInFlight = FALSE
    /\ cancelled = FALSE
    /\ hasBluetooth = TRUE
    /\ NoKey
    /\ variant \in {1, 2}

NextTick ==
    \/ nTick < MaxTicks /\ \E d \in TickDraws : SimTick(d)
    \/ TogglePause

SpecTick == InitTick /\ [][NextTick]_vars

(***************************************************************************)
(* Reports: a session of one source with the report panel in use           *)
(***************************************************************************)
ReportChunks == {ChunkFrame, ChunkWide}
ReportOutcomes == {"text", "empty", "403", "fetch", "other", "nomessage"}

\* At most ReportEvents chunks and simulation ticks in one run of SpecReport
ReportEvents == 6

\* checkKey, lines 104-114
KeyChecked ==
    /\ envApiKey \in BOOLEAN
    /\ hasAiStudio \in BOOLEAN
    /\ hasApiKey \in (IF hasAiStudio THEN BOOLEAN ELSE {envApiKey})

InitReport ==
    /\ \/ DemoState /\ variant = 1
       \/ /\ StreamingState
          /\ sessionActive = TRUE
          /\ listenerSessionActive = TRUE
          /\ capSessionActive = TRUE
    /\ KeyChecked

NextReport ==
    \/ nPush + nTick < ReportEvents /\ \E c \in ReportChunks : DeliverChunk(c)
    \/ nPush + nTick < ReportEvents /\ \E d \in SimDraws : SimTick(d)
    \/ TogglePause
    \/ HandleClear
    \/ GenerateClick
    \/ \E o \in ReportOutcomes : GenerateDone(o)
    \/ ConnectGemini

SpecReport == InitReport /\ [][NextReport]_vars

(***************************************************************************)
(* Field texts, read without parseInt                                      *)
(***************************************************************************)
AllIn(s, set) == \A i \in 1..Len(s) : s[i] \in set

\* An optional sign and one or more decimal digits, nothing else
IsIntegerText(t) ==
    /\ t # <<>>
    /\ LET body == IF Head(t) \in {"-", "+"} THEN Tail(t) ELSE t
       IN  body # <<>> /\ AllIn(body, DecDigits)

RECURSIVE DecValue(_)
DecValue(ds) ==
    IF ds = <<>> THEN 0
    ELSE 10 * DecValue(SubSeq(ds, 1, Len(ds) - 1)) + DigitVal(ds[Len(ds)])

IntegerOf(t) ==
    IF Head(t) = "-" THEN 0 - DecValue(Tail(t))
    ELSE IF Head(t) = "+" THEN DecValue(Tail(t))
    ELSE DecValue(t)

FieldsOf(frame) == SplitOn(frame, ",")

\* The frame has at least 5 fields and its first 5, trimmed, are integers
FiveIntegers(frame) ==
    /\ Len(FieldsOf(frame)) >= 5
    /\ \A k \in 1..5 : IsIntegerText(Trim(FieldsOf(frame)[k]))

FiveValues(frame) == [k \in 1..5 |-> IntegerOf(Trim(FieldsOf(frame)[k]))]

PushStep == nPush' = nPush + 1

(***************************************************************************)
(* Claims                                                                  *)
(***************************************************************************)
\* C1: once the whole two-frame stream has been delivered, in whatever chunks,
\* the frames handed to the decoder are exactly the two frames, in order.
C1_SplitYieldsFrames ==
    devPos = Len(Stream2) => outFrames = <<Frame1, Frame2>>

\* C2: a push after which the buffer holds k >= 1 line feeds emits all k
\* terminated segments in order and keeps the text after the last line feed.
C2_AllSegmentsEmitted ==
    (nPush > 0 /\ Includes(lastJoined, LF)) =>
        LET lines == SplitLines(lastJoined) IN
        /\ lastFrames = SubSeq(lines, 1, Len(lines) - 1)
        /\ buffer = lines[Len(lines)]

\* C3: after every push the buffer holds at most SafetyThreshold characters.
C3_BufferBounded == Len(buffer) <= SafetyThreshold

\* C4: a push that leaves more than SafetyThreshold characters with no line
\* feed and fewer than 5 comma-separated tokens emits nothing and empties
\* the buffer.
C4_GarbageDiscarded ==
    (/\ nPush > 0
     /\ Len(lastJoined) > SafetyThreshold
     /\ ~Includes(lastJoined, LF)
     /\ Len(SplitOn(lastJoined, ",")) < 5)
        => (lastFrames = <<>> /\ buffer = <<>>)

\* C5: a frame with fewer than 5 fields, or with one of its first 5 fields
\* not an integer, is rejected: no sample is built, currentData and history
\* keep their values.
C5_BadFrameRejected ==
    [][(PushStep /\ lastFrames' # <<>> /\ ~FiveIntegers(lastFrames'[1]))
         => (~lastAccepted' /\ currentData' = currentData /\ history' = history)]_vars

\* C6: a frame with at least 5 fields whose first 5 are integers is decoded
\* into the sample of exactly those five integers, whatever follows them.
C6_FiveIntegersDecoded ==
    (nPush > 0 /\ lastFrames # <<>> /\ FiveIntegers(lastFrames[1])) =>
        (lastAccepted /\ Channels(currentData) = FiveValues(lastFrames[1]))

\* C7: the history is the last min(n, cap) of the n samples appended since
\* the last reset, in their order; with cap 50 and 60 appends its first
\* element is the 11th sample appended.
C7_HistoryIsLastAppended ==
    LET n == Len(appended)
        m == Min(n, HistoryCap)
    IN  /\ Len(history) = m
        /\ Len(history) <= HistoryCap
        /\ history = SubSeq(appended, n - m + 1, n)
        /\ (HistoryCap = 50 /\ n = 60) => history[1] = appended[11]

C7_Witness ==
    /\ variant = 2
    /\ Len(appended) = 60
    /\ Len(history) = 50
    /\ history[1] = appended[11]
    /\ appended[11] # appended[10]

\* C8: in a real-device session that is connected and paused, a chunk never
\* changes the history.
C8_PausedChunkKeepsHistory ==
    [][(PushStep /\ isConnected /\ ~isSimulating /\ ~sessionActive)
         => history' = history]_vars

\* C9: in a real-device session that is connected and capturing, every chunk
\* that completes an accepted frame appends its sample to the history.
C9_ActiveChunkAppends ==
    [][(PushStep /\ isConnected /\ ~isSimulating /\ sessionActive /\ lastAccepted')
         => history' = AppendHistory(history, currentData', HistoryCap1)]_vars

\* C10: the simulation interval is never armed while a characteristic
\* subscription is registered or a connect attempt is pending.
C10_OneSourceLive ==
    ~(TickArmed /\ ((subscribed /\ linkUp) \/ pc # "idle"))


(***************************************************************************)
(* Steps of the connect flow, recognised from outside                      *)
(***************************************************************************)
\* A connectBluetooth call ends without a session: it returns at line 187
\* or at line 224, or it reaches the catch of line 244
ConnectFails ==
    \/ ConnectClick /\ ~hasBluetooth
    \/ pc # "idle" /\ pc' = "idle" /\ deviceError' # ""

\* C11: the history becomes empty only through handleClear; a disconnect, a
\* transport drop, a failed connect attempt, pause or resume, and stopping
\* the simulation leave the history as it was.
C11_OnlyClearEmpties ==
    [][/\ (history # <<>> /\ history' = <<>>) => HandleClear
       /\ (DisconnectClick \/ TransportDrop \/ ConnectFails \/ TogglePause
             \/ ToggleSimulation) => history' = history]_vars

C11_Witness ==
    /\ history # <<>>
    /\ ~isConnected /\ ~isSimulating
    /\ serverRefSet /\ ~linkUp
    /\ deviceError # ""

\* The state handleClear leaves behind
Cleared == history = <<>> /\ currentData = ZeroSample /\ aiReport = ""

\* C12: after handleClear the history is empty whatever it held before, and
\* a reset applied to the state a reset left changes nothing (resetting
\* twice is resetting once).
C12_ClearEmptiesOnce ==
    /\ [][HandleClear => (history' = <<>> /\ Cleared')]_vars
    /\ [][(HandleClear /\ Cleared) => UNCHANGED vars]_vars

\* A reset has emptied a history of at least five samples
C12_Witness ==
    /\ Cleared
    /\ appended = <<>>
    /\ nPush + nTick >= 5

\* C13: whenever a connect attempt fails after the GATT link was connected
\* (service not found under both identifiers, characteristic not found
\* under both, notifications refused), the link is disconnected by the time
\* the attempt is over.
C13_FailedAttemptReleasesLink ==
    [][(/\ pc \in {"service2", "char2", "startNotifications"}
        /\ pc' = "idle"
        /\ deviceError' # "") => ~linkUp']_vars

\* C14: every failed connect attempt (unsupported platform, chooser
\* cancelled, permission denied, transport error, service or characteristic
\* not found) ends with isConnected false, no connection-progress status
\* left, a non-empty error message, and the connect button enabled again.
C14_FailedAttemptResets ==
    [][ConnectFails => (/\ ~isConnected'
                        /\ btStatus' = ""
                        /\ deviceError' # ""
                        /\ pc' = "idle")]_vars

\* C15: a Desconectar issued while the attempt is looking up the service
\* leaves the session disconnected at once, with the link down, and that
\* attempt never gets past the service lookup: no characteristic lookup, no
\* startNotifications, no listener.
C15_CancelledNeverSubscribes ==
    /\ [][(DisconnectClick /\ pc \in {"service1", "service2"})
            => (~isConnected' /\ ~linkUp' /\ ~subscribed')]_vars
    /\ [](cancelled => (/\ pc \in {"service1", "service2", "idle"}
                        /\ ~linkUp /\ ~subscribed))

\* A cancelled attempt has run to its end
C15_Witness ==
    /\ cancelled
    /\ pc = "idle"
    /\ deviceError # ""

\* C16: from a streaming session on a real device, a transport drop moves
\* the session to Disconnected: isConnected is false after it.
C16_DropDisconnects ==
    [][(TransportDrop /\ isConnected /\ subscribed /\ ~isSimulating) => ~isConnected']_vars

ChannelNames == {"pulgar", "indice", "medio", "anular", "menique"}
InRange(s) == \A f \in ChannelNames : s[f] \in 0..180

\* C17: every sample a simulation tick produces has its five channels in
\* [0, 180], whatever the current sample was before the first tick (zeros,
\* or values a device frame wrote, out of range or not); the ticks that ran
\* since the reset are all in the history, so five ticks leave five samples.
C17_TickSamplesInRange ==
    /\ nTick > 0 => InRange(currentData)
    /\ \A i \in 1..Len(history) : InRange(history[i])
    /\ Len(history) = nTick

\* Five ticks after a start from a device frame with out-of-range values
C17_Witness ==
    /\ nTick = 5
    /\ Len(history) = 5
    /\ appended[1].anular = 26
    /\ appended[1].indice = 0
    /\ appended[1].menique = 0

(***************************************************************************)
(* Reports                                                                 *)
(***************************************************************************)
\* A step in which generateAIReport builds a request and sends it
RequestBuilt == genPc = "idle" /\ genPc' = "generateContent"

RECURSIVE ChannelSum(_, _)
ChannelSum(h, f) == IF h = <<>> THEN 0 ELSE Head(h)[f] + ChannelSum(Tail(h), f)

\* m is an integer nearest to s / n, n > 0
IsNearest(m, s, n) == 2 * (m * n - s) \in (0 - n)..n

\* m is the largest value of channel f in h
IsLargest(m, h, f) ==
    /\ \E i \in 1..Len(h) : h[i][f] = m
    /\ \A i \in 1..Len(h) : h[i][f] <= m

\* C18: the summary built from a non-empty history of integer samples has
\* the history length as its count, for each summarised channel (indice,
\* medio) the sum over the count rounded to the nearest integer as its mean
\* and the largest value as its maximum, and the maximum is at least the
\* mean.
C18_StatsSummarise ==
    [][RequestBuilt =>
         /\ history # <<>>
         /\ stats'.muestras = Len(history)
         /\ IsNearest(stats'.promedio_indice, ChannelSum(history, "indice"), Len(history))
         /\ IsNearest(stats'.promedio_medio, ChannelSum(history, "medio"), Len(history))
         /\ IsLargest(stats'.max_indice, history, "indice")
         /\ IsLargest(stats'.max_medio, history, "medio")
         /\ stats'.max_indice >= stats'.promedio_indice
         /\ stats'.max_medio >= stats'.promedio_medio]_vars

\* A request in flight whose medio mean 19 / 5 was rounded up to 4
C18_Witness ==
    /\ genPc = "generateContent"
    /\ stats.muestras = 5
    /\ stats.promedio_medio = 4 /\ stats.max_medio = 7
    /\ stats.promedio_indice = 1 /\ stats.max_indice = 2

\* C19: no report request is built or sent while the history holds fewer
\* than five samples; a reset makes the generate action unavailable at once,
\* so a request built after a reset has five samples again.
C19_NoReportUnderFive ==
    /\ [][RequestBuilt => (Len(history) >= 5 /\ stats'.muestras >= 5)]_vars
    /\ [][HandleClear => ~GenerateEnabled']_vars

\* A request in flight that was built from the five samples that followed a
\* reset
C19_Witness ==
    /\ genPc = "generateContent"
    /\ stats.muestras = 5
    /\ Len(appended) = 5
    /\ nPush + nTick = 6

\* Some frame handed to the decoder so far was rejected
SomeRejected == \E i \in 1..Len(outFrames) : ~Accepts(ParseValues(outFrames[i]))

\* C20: a frame the decoder rejects is dropped silently (history, current
\* sample, connection and pause state and device error keep their values),
\* and the stream goes on: once a frame has been rejected, every valid
\* line-feed-terminated frame that arrives later is still handed to the
\* decoder and decoded into a sample.
C20_RejectedFrameDropped ==
    [][PushStep =>
         /\ (lastFrames' # <<>> /\ ~lastAccepted')
              => UNCHANGED <<history, currentData, appVars, connVars>>
         /\ SomeRejected =>
              LET lines == SplitLines(lastJoined') IN
              \A i \in 1..(Len(lines) - 1) :
                  (FiveIntegers(lines[i]) /\ Accepts(ParseValues(lines[i])))
                    => \E j \in 1..Len(lastFrames') : lastFrames'[j] = lines[i]]_vars

\* C21: a push after which the buffer holds no line feed but at least 5
\* comma-separated tokens emits the whole buffer as exactly one frame and
\* leaves the buffer empty.
C21_BareFrameClearsBuffer ==
    (/\ nPush > 0
     /\ ~Includes(lastJoined, LF)
     /\ Len(SplitOn(lastJoined, ",")) >= 5)
        => (lastFrames = <<lastJoined>> /\ buffer = <<>>)

\* C22: Desconectar on a real-device session empties the reassembly buffer
\* and releases the chunk subscription, so that no partial frame of this
\* connection is joined to chunks of a later one and no chunk is handled
\* after the disconnect.
C22_DisconnectClearsBuffer ==
    [][(DisconnectClick /\ subscribed /\ ~isSimulating)
         => (buffer' = <<>> /\ ~subscribed' /\ ~linkUp')]_vars

ServiceNotFound == "No se encontro el servicio Serial (FFE0)."

C24_PauseTogglesOnlyCapture ==
    [][TogglePause =>
         /\ sessionActive' = ~sessionActive
         /\ UNCHANGED <<isConnected, isSimulating, serverRefSet, linkUp, subscribed,
                        listenerSessionActive, buffer, currentData, history,
                        deviceError, btStatus, pc>>]_vars

\* A streaming real-device session, paused with a partial frame buffered
C24_Witness ==
    /\ isConnected /\ ~isSimulating
    /\ ~sessionActive
    /\ subscribed /\ linkUp
    /\ buffer # <<>>

TickStep == nTick' = nTick + 1

\* The value v moved by step d and kept within [0, 180]
Walk(v, d) ==
    IF v + d < 0 THEN 0 ELSE IF v + d > 180 THEN 180 ELSE v + d

\* C25: on each simulation tick pulgar is drawn from [0, 20) when its
\* previous value exceeds 150 and from [20, 60) otherwise, and every other
\* channel is its previous value plus one of its two signed steps, kept
\* within [0, 180].
C25_TickDraw ==
    [][TickStep =>
         /\ currentData.pulgar > 150 => currentData'.pulgar \in 0..19
         /\ currentData.pulgar <= 150 => currentData'.pulgar \in 20..59
         /\ currentData'.indice \in {Walk(currentData.indice, 10), Walk(currentData.indice, -10)}
         /\ currentData'.medio \in {Walk(currentData.medio, 15), Walk(currentData.medio, -5)}
         /\ currentData'.anular \in {Walk(currentData.anular, 5), Walk(currentData.anular, -5)}
         /\ currentData'.menique \in {Walk(currentData.menique, 8), Walk(currentData.menique, -8)}]_vars

\* C26: a simulation tick fires only while the session is simulating,
\* connected and not paused; none fires after a disconnect or in a pause.
C26_TickOnlyInLiveDemo ==
    [][TickStep => (isSimulating /\ isConnected /\ sessionActive)]_vars

\* The pending report request settles
ResponseStep == genPc = "generateContent" /\ genPc' = "idle"

\* C27: after handleClear the displayed report stays empty until a new
\* report is requested: the response to a request made before the reset
\* does not become the displayed report.
C27_ClearedReportStaysEmpty ==
    [][(ResponseStep /\ clearedInFlight) => aiReport' = ""]_vars

\* C28: isGeneratingReport is true exactly while a report request is
\* outstanding; a request is sent only when none is outstanding, and the
\* flag is false again once the request has settled, with text, without
\* text or with an error of any kind.
C28_FlagWhileInFlight ==
    /\ [](isGeneratingReport <=> genPc = "generateContent")
    /\ [][GenerateClick => genPc = "idle"]_vars
    /\ [][ResponseStep => ~isGeneratingReport']_vars

\* A request has settled with a thrown value that has no message, in a
\* session that was never reset
C28_Witness ==
    /\ genPc = "idle" /\ ~isGeneratingReport
    /\ stats.muestras >= 5
    /\ aiReport = ""
    /\ Len(appended) = nPush + nTick

\* C29: a frame the decoder accepts replaces the current sample with the
\* sample decoded from it, whether the session is capturing or paused; the
\* capture flag bears on the append to the history only (the history is
\* left alone or gets that one sample), and a push without an accepted
\* frame leaves the current sample and the history unchanged.
C29_AcceptedFrameShown ==
    [][PushStep =>
         /\ lastAccepted' =>
              /\ currentData' = NewData(ParseValues(lastFrames'[1]))
              /\ history' \in {history, AppendHistory(history, currentData', HistoryCap1)}
         /\ ~lastAccepted' => (currentData' = currentData /\ history' = history)
         /\ UNCHANGED <<sessionActive, isConnected>>]_vars

\* A paused session shows the frame it has just accepted and has not
\* appended it
C29_Witness ==
    /\ ~sessionActive /\ ~listenerSessionActive
    /\ lastAccepted
    /\ currentData = MkSample(200, -3, 7, 31, 0)
    /\ history = <<>>
====
